---- MODULE Spec2Model ----
(***************************************************************************)
(* Reminder lifecycle and due scan of the CLI_Reminder repository.          *)
(*                                                                          *)
(* An instant (chrono DateTime<Local>) is a number of seconds since          *)
(* 2024-01-01 00:00:00 local time.  The local zone is taken to have a fixed  *)
(* offset, so a calendar date and time of day name exactly one instant.      *)
(* An Option<T> is a sequence: <<>> is None and <<v>> is Some(v).            *)
(* A uuid is a natural number minted from a counter.                         *)
(***************************************************************************)
EXTENDS Integers, Sequences, FiniteSets, TLC

VARIABLES
    store,        \* contents of reminders.json: a sequence of Reminder
    now,          \* the wall clock, Local::now()
    nextId,       \* the next uuid Reminder::new mints
    ticks,        \* number of clock advances so far
    edits,        \* number of Edit commands so far
    scans,        \* number of due scans started so far
    scanPc,       \* position of check_due_reminders: idle, running, ok, err, panic
    scanRems,     \* its local `reminders` vector
    scanIdx,      \* index of the loop over reminders.iter_mut()
    scanDue,      \* its local `due_reminders` vector
    scanDesktop,  \* its send_desktop argument
    scanLoaded,   \* the collection as Storage::load returned it at the start
    scanSaves,    \* number of Storage::save calls that succeeded in this scan
    scanFault,    \* the failure met in this scan: none, load, show, reload, save
    scanEcho,     \* ids echoed on the terminal ("REMINDER: ...") in this scan
    noneReports,  \* per id: scans that returned it as due while its recurrence was None
    noneEchoes,   \* per id: scans that echoed it while its recurrence was None
    ent,          \* entity harness: the reminder under test
    entPrev,      \* entity harness: the reminder before the last mark_notified
    entOp,        \* entity harness: the last operation applied
    entDue,       \* entity harness: the last result of is_due
    entMarks,     \* entity harness: number of mark_notified calls so far
    tuiPc,        \* the interactive editor: off, running, quit
    keys,         \* number of key events run_app has handled
    key,          \* the key event handled last
    parsed,       \* parse harness: whether the parse ran, and its result
    mainRun,      \* main: where it is, the command, run's error chain, the exit code
    dim,          \* days_in_month harness: its arguments, whether it ran, its result
    cycle,        \* the run of cycle keys handled last: which key, from which field, how many
    trail,        \* the form before the key handled last, when that was a cycle key, and the key before it
    reminders,    \* App.reminders: the list as last loaded
    current_view, \* App.current_view: List, Add, Edit, Help
    input_mode,   \* App.input_mode: Normal, Editing
    active_field, \* App.active_field: Text, Time, Date, Recurrence, Submit
    selected_index,           \* App.selected_index, from 0
    new_reminder_text,        \* App.new_reminder_text, a sequence of characters
    new_reminder_time,        \* App.new_reminder_time
    new_reminder_date,        \* App.new_reminder_date
    new_reminder_recurrence,  \* App.new_reminder_recurrence
    editing_reminder_id,      \* App.editing_reminder_id, an Option
    error_message             \* App.error_message, an Option

vars == <<store, now, nextId, ticks, edits, scans, scanPc, scanRems, scanIdx, scanDue,
          scanDesktop, scanLoaded, scanSaves, scanFault, scanEcho, noneReports,
          noneEchoes, ent, entPrev, entOp, entDue, entMarks, tuiPc, keys, key, cycle, trail, parsed, mainRun, dim,
          reminders,
          current_view, input_mode, active_field, selected_index, new_reminder_text,
          new_reminder_time, new_reminder_date, new_reminder_recurrence,
          editing_reminder_id, error_message>>

bufVars == <<new_reminder_text, new_reminder_time, new_reminder_date,
             new_reminder_recurrence>>

tuiVars == <<tuiPc, keys, key, cycle, trail, parsed, mainRun, dim, reminders, current_view, input_mode, active_field,
             selected_index, bufVars, editing_reminder_id, error_message>>

sysVars == <<store, nextId, ticks, edits, scans, scanPc, scanRems, scanIdx, scanDue,
             scanDesktop, scanLoaded, scanSaves, scanFault, scanEcho, noneReports,
             noneEchoes, tuiVars>>

histVars == <<noneReports, noneEchoes>>

scanVars == <<scanPc, scanRems, scanIdx, scanDue, scanDesktop, scanLoaded,
              scanSaves, scanFault, scanEcho>>

entVars == <<ent, entPrev, entOp, entDue, entMarks>>

(***************************************************************************)
(* Bounds of the model.                                                     *)
(***************************************************************************)
MaxCmds == 5     \* Add, Edit and Notify commands and clock advances of one run
MaxMarks == 2    \* mark_notified calls of the entity harness
MaxEntTicks == 2 \* clock advances of the entity harness
MaxKeys == 9     \* key events of one run of the editor

(***************************************************************************)
(* The calendar, as chrono computes it.                                     *)
(***************************************************************************)
IsLeapYear(y) == (y % 4 = 0 /\ y % 100 # 0) \/ y % 400 = 0

MonthLen(m, y) ==
    IF m \in {4, 6, 9, 11} THEN 30
    ELSE IF m = 2 THEN (IF IsLeapYear(y) THEN 29 ELSE 28)
    ELSE 31

YearLen(y) == IF IsLeapYear(y) THEN 366 ELSE 365

RECURSIVE DaysBeforeYear(_)
DaysBeforeYear(y) ==
    IF y <= 2024 THEN 0 ELSE DaysBeforeYear(y - 1) + YearLen(y - 1)

RECURSIVE DaysBeforeMonth(_, _)
DaysBeforeMonth(m, y) ==
    IF m <= 1 THEN 0 ELSE DaysBeforeMonth(m - 1, y) + MonthLen(m - 1, y)

\* Local.with_ymd_and_hms: Some(instant) for a date of the calendar, None otherwise
with_ymd_and_hms(y, m, d, h, mi, s) ==
    IF /\ y >= 2024
       /\ m \in 1..12
       /\ d >= 1 /\ d <= MonthLen(m, y)
       /\ h \in 0..23 /\ mi \in 0..59 /\ s \in 0..59
    THEN << ((DaysBeforeYear(y) + DaysBeforeMonth(m, y) + (d - 1)) * 24 + h) * 3600
            + mi * 60 + s >>
    ELSE << >>

\* an instant of the calendar, for the inputs of the model
At(y, m, d, h, mi, s) == with_ymd_and_hms(y, m, d, h, mi, s)[1]

RECURSIVE YearFrom(_, _)
YearFrom(y, days) ==
    IF days < YearLen(y) THEN y ELSE YearFrom(y + 1, days - YearLen(y))

RECURSIVE MonthFrom(_, _, _)
MonthFrom(m, y, days) ==
    IF days < MonthLen(m, y) THEN m ELSE MonthFrom(m + 1, y, days - MonthLen(m, y))

\* Datelike and Timelike accessors of DateTime<Local>
year(t) == YearFrom(2024, t \div 86400)
ordinal0(t) == (t \div 86400) - DaysBeforeYear(year(t))
month(t) == MonthFrom(1, year(t), ordinal0(t))
day(t) == ordinal0(t) - DaysBeforeMonth(month(t), year(t)) + 1
hour(t) == (t % 86400) \div 3600
minute(t) == (t % 3600) \div 60
second(t) == t % 60

\* Duration::num_hours: whole hours, truncated toward zero
num_hours(d) == IF d >= 0 THEN d \div 3600 ELSE 0 - ((0 - d) \div 3600)

Min(a, b) == IF a <= b THEN a ELSE b

(***************************************************************************)
(* RecurrenceType and Reminder.                                             *)
(***************************************************************************)
RecNone == [tag |-> "None", payload |-> ""]
RecDaily == [tag |-> "Daily", payload |-> ""]
RecWeekly == [tag |-> "Weekly", payload |-> ""]
RecMonthly == [tag |-> "Monthly", payload |-> ""]
RecYearly == [tag |-> "Yearly", payload |-> ""]
RecCustom(s) == [tag |-> "Custom", payload |-> s]

RecurrenceType ==
    {RecNone, RecDaily, RecWeekly, RecMonthly, RecYearly, RecCustom("cron")}

\* a constructor that hands every reminder the same id
new_same_id(id, text, due_time, recurrence, t) ==
    [id |-> 1, text |-> text, due_time |-> due_time, recurrence |-> recurrence,
     created_at |-> t, last_notified |-> << >>, completed |-> FALSE]

\* Reminder::new
new(id, text, due_time, recurrence, t) ==
    [id |-> id, text |-> text, due_time |-> due_time, recurrence |-> recurrence,
     created_at |-> t, last_notified |-> << >>, completed |-> FALSE]

\* the helper days_in_month of reminder.rs
days_in_month_julian(m, y) ==
    IF m \in {1, 3, 5, 7, 8, 10, 12} THEN 31
    ELSE IF m \in {4, 6, 9, 11} THEN 30
    ELSE IF y % 4 = 0 THEN 29
    ELSE 28

days_in_month(m, y) ==
    IF m \in {1, 3, 5, 7, 8, 10, 12} THEN 31
    ELSE IF m \in {4, 6, 9, 11} THEN 30
    ELSE IF (y % 4 = 0 /\ y % 100 # 0) \/ (y % 400 = 0) THEN 29
    ELSE 28

\* the whole-hour test of is_due on the time since the last notification
day_passed_rounded(elapsed) == (elapsed + 1800) \div 3600 >= 24
DayPassed(elapsed) == num_hours(elapsed) >= 24

\* Reminder::is_due, with the instant Local::now() returns
is_due_unthrottled(r, t) ==
    /\ r.due_time <= t
    /\ ~r.completed
    /\ (r.last_notified = << >> \/ r.recurrence.tag # "None")
is_due(r, t) ==
    /\ r.due_time <= t
    /\ ~r.completed
    /\ IF r.last_notified = << >> THEN TRUE
       ELSE IF r.recurrence.tag = "None" THEN FALSE
       ELSE DayPassed(t - r.last_notified[1])

\* the due_time the Monthly arm of mark_notified builds (an Option)
next_monthly_day28(d) ==
    LET new_month == (month(d) % 12) + 1
        new_year == year(d) + (IF new_month = 1 THEN 1 ELSE 0)
    IN  with_ymd_and_hms(new_year, new_month, Min(day(d), 28),
                         hour(d), minute(d), second(d))
next_monthly(d) ==
    LET new_month == (month(d) % 12) + 1
        new_year == year(d) + (IF new_month = 1 THEN 1 ELSE 0)
    IN  with_ymd_and_hms(new_year, new_month,
                         Min(day(d), days_in_month(new_month, new_year)),
                         hour(d), minute(d), second(d))

\* the due_time the Yearly arm of mark_notified builds (an Option)
next_yearly(d) ==
    with_ymd_and_hms(year(d) + 1, month(d), day(d), hour(d), minute(d), second(d))

\* the Daily arm of mark_notified: due_time + Duration::days(1)
next_daily_catching_up(d) == IF d + 86400 > now THEN d + 86400 ELSE now + 86400
next_daily(d) == d + 86400

\* the Weekly arm of mark_notified: due_time + Duration::weeks(1)
next_weekly_six_days(d) == d + 6 * 86400
next_weekly(d) == d + 7 * 86400

\* the None arm of mark_notified, applied once last_notified is set
mark_none_rescheduled(n) == [n EXCEPT !.completed = TRUE, !.due_time = next_daily(@)]
mark_none_toggles(n) == [n EXCEPT !.completed = ~@]
mark_none(n) == [n EXCEPT !.completed = TRUE]

\* the Custom arm of mark_notified, applied once last_notified is set
mark_custom_completes(n) == [n EXCEPT !.completed = TRUE]
mark_custom(n) == n

\* mark_notified panics when it unwraps None
mark_notified_panics(r) ==
    \/ r.recurrence.tag = "Monthly" /\ next_monthly(r.due_time) = << >>
    \/ r.recurrence.tag = "Yearly" /\ next_yearly(r.due_time) = << >>

\* Reminder::mark_notified, with the instant Local::now() returns
mark_notified_unrecorded(r, t) ==
    IF r.recurrence.tag = "None" THEN r
    ELSE IF r.recurrence.tag = "Daily"
         THEN [r EXCEPT !.last_notified = <<t>>, !.due_time = @ + 86400]
    ELSE [r EXCEPT !.last_notified = <<t>>]
mark_notified(r, t) ==
    LET n == [r EXCEPT !.last_notified = <<t>>]
    IN  IF r.recurrence.tag = "None" THEN mark_none(n)
        ELSE IF r.recurrence.tag = "Daily"
             THEN [n EXCEPT !.due_time = next_daily(r.due_time)]
        ELSE IF r.recurrence.tag = "Weekly"
             THEN [n EXCEPT !.due_time = next_weekly(r.due_time)]
        ELSE IF r.recurrence.tag = "Monthly"
             THEN [n EXCEPT !.due_time = next_monthly(r.due_time)[1]]
        ELSE IF r.recurrence.tag = "Yearly"
             THEN [n EXCEPT !.due_time = next_yearly(r.due_time)[1]]
        ELSE mark_custom(n)

(***************************************************************************)
(* Storage: the whole collection is read and written at once.               *)
(***************************************************************************)
HasId(rems, id) == \E i \in 1..Len(rems) : rems[i].id = id

FirstWithId(rems, id) == CHOOSE i \in 1..Len(rems) :
    rems[i].id = id /\ \A j \in 1..(i - 1) : rems[j].id # id

\* Storage::add_reminder: the collection it saves
add_reminder(rems, r) == Append(rems, r)

\* Storage::delete_reminder: the collection after retain
delete_reminder(rems, id) == SelectSeq(rems, LAMBDA r : r.id # id)

\* Storage::update_reminder: the collection it saves when the id is found
update_forgets(rems, u) == rems
update_moves_last(rems, u) ==
    IF HasId(rems, u.id) THEN Append(SelectSeq(rems, LAMBDA r : r.id # u.id), u) ELSE rems
update_reminder(rems, u) ==
    IF HasId(rems, u.id) THEN [rems EXCEPT ![FirstWithId(rems, u.id)] = u] ELSE rems

\* Storage::get_reminder_by_id
get_reminder_by_id(rems, id) ==
    IF HasId(rems, id) THEN << rems[FirstWithId(rems, id)] >> ELSE << >>

(***************************************************************************)
(* Inputs of the commands.                                                  *)
(***************************************************************************)
StartNow == At(2025, 1, 31, 9, 0, 0)

AddTexts == {"Pay rent"}
EditTexts == {"Call bank"}

\* due times as parse_datetime yields them: whole minutes
DueInputs == {At(2025, 1, 31, 9, 0, 0)}
EditDueInputs == {At(2025, 2, 1, 9, 0, 0)}

\* what the commands are given as recurrence
AddRecurrences == {RecNone, RecDaily, RecCustom("cron")}
EditRecurrences == {RecNone, RecDaily}

\* clock advances: one minute, 24 hours
TickSteps == {60, 86400}

Outcomes == {"ok", "fail"}

IdsMinted == 1..(nextId - 1)

(***************************************************************************)
(* The commands of run().                                                   *)
(***************************************************************************)
Idle == scanPc = "idle"

\* the run has commands left
Budget == ticks + edits + scans + (nextId - 1) < MaxCmds

\* the clock advances between commands
Tick ==
    /\ Idle
    /\ Budget
    /\ \E d \in TickSteps : now' = now + d
    /\ ticks' = ticks + 1
    /\ UNCHANGED <<store, nextId, edits, scans, scanVars, histVars, entVars, tuiVars>>

\* Commands::Add
Add ==
    /\ Idle
    /\ Budget
    /\ \E text \in AddTexts, due_time \in DueInputs, recurrence \in AddRecurrences :
          store' = add_reminder(store, new(nextId, text, due_time, recurrence, now))
    /\ nextId' = nextId + 1
    /\ UNCHANGED <<now, ticks, edits, scans, scanVars, histVars, entVars, tuiVars>>

\* Commands::Delete, by id or by index (an index names the id at that place)
Delete ==
    /\ Idle
    /\ \E id \in IdsMinted :
          /\ HasId(store, id)
          /\ store' = delete_reminder(store, id)
    /\ UNCHANGED <<now, nextId, ticks, edits, scans, scanVars, histVars, entVars, tuiVars>>

\* the fields Commands::Edit replaces in the reminder it loaded
edit_fields(r, text, time, recurrence) ==
    [r EXCEPT !.text = IF text = << >> THEN @ ELSE text[1],
              !.due_time = IF time = << >> THEN @ ELSE time[1],
              !.recurrence = IF recurrence = << >> THEN @ ELSE recurrence[1]]

\* Commands::Edit
CliEdit ==
    /\ Idle
    /\ Budget
    /\ \E id \in IdsMinted,
          text \in {<< >>} \cup {<<x>> : x \in EditTexts},
          time \in {<< >>} \cup {<<d>> : d \in EditDueInputs},
          recurrence \in {<< >>} \cup {<<x>> : x \in EditRecurrences} :
          LET found == get_reminder_by_id(store, id)
          IN  /\ found # << >>
              /\ store' = update_reminder(store,
                              edit_fields(found[1], text, time, recurrence))
    /\ edits' = edits + 1
    /\ UNCHANGED <<now, nextId, ticks, scans, scanVars, histVars, entVars, tuiVars>>

\* Reminder::new_with_id: the constructor App::update_reminder calls with the id
\* being edited and the three values of the form, and with nothing else of the
\* stored reminder; the other fields are set as Reminder::new sets them
new_with_id(id, text, due_time, recurrence) == new(id, text, due_time, recurrence, now)

\* App::update_reminder: the commit of the Edit form, once its buffers are parsed
TuiEditCommit ==
    /\ Idle
    /\ Budget
    /\ \E id \in IdsMinted, text \in EditTexts, due_time \in EditDueInputs,
          recurrence \in EditRecurrences :
          /\ HasId(store, id)
          /\ store' = update_reminder(store, new_with_id(id, text, due_time, recurrence))
    /\ edits' = edits + 1
    /\ UNCHANGED <<now, nextId, ticks, scans, scanVars, histVars, entVars, tuiVars>>

(***************************************************************************)
(* Notifier::check_due_reminders as one command.  All the clock reads of    *)
(* one scan are taken at the same instant.                                  *)
(***************************************************************************)
\* the store after the loop iterations i .. stop-1, each update_reminder saving
RECURSIVE persisted(_, _, _, _)
persisted(rems, i, st, stop) ==
    IF i >= stop \/ i > Len(rems) THEN st
    ELSE IF is_due(rems[i], now)
         THEN persisted(rems, i + 1, update_reminder(st, mark_notified(rems[i], now)), stop)
         ELSE persisted(rems, i + 1, st, stop)

\* the loop iterations at which a scan can end early: a due reminder whose
\* notification or update fails, or whose mark_notified panics
CanStopAt(rems, k) ==
    /\ k \in 1..Len(rems)
    /\ is_due(rems[k], now)
    /\ \A j \in 1..(k - 1) : ~(is_due(rems[j], now) /\ mark_notified_panics(rems[j]))

Completes(rems) ==
    \A j \in 1..Len(rems) : ~(is_due(rems[j], now) /\ mark_notified_panics(rems[j]))

\* ids of the reminders of a list whose recurrence is None
NoneIds(rems) ==
    {rems[i].id : i \in {j \in 1..Len(rems) : rems[j].recurrence.tag = "None"}}

\* the reminders of a list that are due, as the loop meets them
DueOf(rems) == SelectSeq(rems, LAMBDA r : is_due(r, now))

\* a per-id count, one more for each id of the set
Counted(count, ids) ==
    [i \in DOMAIN count |-> IF i \in ids THEN count[i] + 1 ELSE count[i]]

\* Commands::Notify, to its end: Ok(due_reminders)
Notify ==
    /\ Idle
    /\ Budget
    /\ Completes(store)
    /\ \E i \in 1..Len(store) : is_due(store[i], now)
    /\ store' = persisted(store, 1, store, Len(store) + 1)
    /\ scans' = scans + 1
    /\ noneReports' = Counted(noneReports, NoneIds(DueOf(store)))
    /\ noneEchoes' = Counted(noneEchoes, NoneIds(DueOf(store)))
    /\ UNCHANGED <<now, nextId, ticks, edits, scanVars, entVars, tuiVars>>

\* Commands::Notify, ended early at loop iteration k by an error or a panic
NotifyAborted ==
    /\ Idle
    /\ Budget
    /\ \E k \in 1..Len(store) :
          /\ CanStopAt(store, k)
          /\ store' = persisted(store, 1, store, k)
          /\ noneEchoes' = Counted(noneEchoes, NoneIds(DueOf(SubSeq(store, 1, k))))
    /\ scans' = scans + 1
    /\ UNCHANGED <<now, nextId, ticks, edits, scanVars, noneReports, entVars, tuiVars>>

(***************************************************************************)
(* Notifier::check_due_reminders, one loop iteration per step.              *)
(***************************************************************************)
ScanReset ==
    /\ scanPc' = "idle"
    /\ scanRems' = << >>
    /\ scanIdx' = 0
    /\ scanDue' = << >>
    /\ scanDesktop' = FALSE
    /\ scanLoaded' = << >>
    /\ scanSaves' = 0
    /\ scanFault' = "none"
    /\ scanEcho' = << >>

\* Commands::Notify: check_due_reminders starts with storage.load()?
ScanStart ==
    /\ Idle
    /\ Budget
    /\ scans' = scans + 1
    /\ \E desktop \in BOOLEAN, load \in Outcomes :
          /\ scanDesktop' = desktop
          /\ IF load = "ok"
             THEN /\ scanPc' = "running"
                  /\ scanRems' = store
                  /\ scanLoaded' = store
                  /\ scanIdx' = 1
                  /\ scanFault' = "none"
             ELSE /\ scanPc' = "err"
                  /\ scanFault' = "load"
                  /\ UNCHANGED <<scanRems, scanLoaded, scanIdx>>
    /\ UNCHANGED <<store, now, nextId, ticks, edits, scanDue, scanSaves, scanEcho,
                   histVars, entVars, tuiVars>>

\* due_reminders.push(reminder.clone()), before the reminder is marked
push_marked(due, r) == Append(due, mark_notified(r, now))
push_due(due, r) == Append(due, r)

\* send_desktop_notification: show()? propagates, a sound failure is only printed
send_desktop_notification(show, sound) == IF show = "ok" THEN "ok" ELSE "err"

\* the ? on storage.update_reminder(..): where the scan goes on
update_error_ignored(res) == "running"
after_update(res) == IF res = "ok" THEN "running" ELSE "err"

\* the loop body for a reminder that is not due
ScanSkip ==
    /\ scanPc = "running"
    /\ scanIdx <= Len(scanRems)
    /\ ~is_due(scanRems[scanIdx], now)
    /\ scanIdx' = scanIdx + 1
    /\ UNCHANGED <<store, now, nextId, ticks, edits, scans, scanPc, scanRems, scanDue,
                   scanDesktop, scanLoaded, scanSaves, scanFault, scanEcho,
                   histVars, entVars, tuiVars>>

\* the loop body for a due reminder whose desktop notification fails
ScanNotifyFail ==
    /\ scanPc = "running"
    /\ scanIdx <= Len(scanRems)
    /\ is_due(scanRems[scanIdx], now)
    /\ scanDesktop
    /\ \E show \in Outcomes, sound \in Outcomes :
          send_desktop_notification(show, sound) = "err"
    /\ scanDue' = push_due(scanDue, scanRems[scanIdx])
    /\ scanEcho' = Append(scanEcho, scanRems[scanIdx].id)
    /\ noneEchoes' = Counted(noneEchoes, NoneIds(<<scanRems[scanIdx]>>))
    /\ scanPc' = "err"
    /\ scanFault' = "show"
    /\ UNCHANGED <<store, now, nextId, ticks, edits, scans, scanRems, scanIdx,
                   scanDesktop, scanLoaded, scanSaves, noneReports, entVars, tuiVars>>

\* the loop body for a due reminder: echo, notify, mark_notified, update_reminder
ScanNotify ==
    /\ scanPc = "running"
    /\ scanIdx <= Len(scanRems)
    /\ is_due(scanRems[scanIdx], now)
    /\ \E show \in Outcomes, sound \in Outcomes, load \in Outcomes, save \in Outcomes :
          LET r == scanRems[scanIdx]
              res == IF load = "fail" THEN "reload"
                     ELSE IF HasId(store, r.id) /\ save = "fail" THEN "save"
                     ELSE "ok"
          IN  /\ scanDesktop => send_desktop_notification(show, sound) = "ok"
              /\ scanDue' = push_due(scanDue, r)
              /\ scanEcho' = Append(scanEcho, r.id)
              /\ noneEchoes' = Counted(noneEchoes, NoneIds(<<r>>))
              /\ IF mark_notified_panics(r)
                 THEN /\ scanPc' = "panic"
                      /\ UNCHANGED <<store, scanRems, scanIdx, scanSaves, scanFault>>
                 ELSE /\ scanRems' = [scanRems EXCEPT ![scanIdx] = mark_notified(r, now)]
                      /\ scanPc' = after_update(res)
                      /\ scanFault' = IF res = "ok" THEN scanFault ELSE res
                      /\ IF res = "ok"
                         THEN /\ store' = update_reminder(store, mark_notified(r, now))
                              /\ scanSaves' = IF HasId(store, r.id)
                                              THEN scanSaves + 1 ELSE scanSaves
                         ELSE UNCHANGED <<store, scanSaves>>
                      /\ scanIdx' = IF after_update(res) = "running"
                                    THEN scanIdx + 1 ELSE scanIdx
    /\ UNCHANGED <<now, nextId, ticks, edits, scans, scanDesktop, scanLoaded,
                   noneReports, entVars, tuiVars>>

\* the loop is over: Ok(due_reminders)
ScanFinish ==
    /\ scanPc = "running"
    /\ scanIdx > Len(scanRems)
    /\ scanPc' = "ok"
    /\ noneReports' = Counted(noneReports, NoneIds(scanDue))
    /\ UNCHANGED <<store, now, nextId, ticks, edits, scans, scanRems, scanIdx, scanDue,
                   scanDesktop, scanLoaded, scanSaves, scanFault, scanEcho, noneEchoes,
                   entVars, tuiVars>>

\* run() and main() report the outcome and the process ends
ScanReturn ==
    /\ scanPc \in {"ok", "err", "panic"}
    /\ ScanReset
    /\ UNCHANGED <<store, now, nextId, ticks, edits, scans, histVars, entVars, tuiVars>>

(***************************************************************************)
(* The program: commands run one after the other on the same store.         *)
(***************************************************************************)
EntIdle == new(0, "", 0, RecNone, 0)

\* The recurrence buffer of a fresh form.
NoneWord == <<"n", "o", "n", "e">>

\* App::new(): the list view in Normal mode, empty buffers, nothing selected
\* for editing, the list as loaded from the store.
AppNew(rems) ==
    /\ reminders = rems
    /\ current_view = "List"
    /\ input_mode = "Normal"
    /\ active_field = "Text"
    /\ selected_index = 0
    /\ new_reminder_text = << >>
    /\ new_reminder_time = << >>
    /\ new_reminder_date = << >>
    /\ new_reminder_recurrence = NoneWord
    /\ editing_reminder_id = << >>
    /\ error_message = << >>

\* No cycle key has been handled since the last other key.
NoCycle == [kind |-> "none", from |-> "Text", count |-> 0]

\* The key handled last was not a cycle key.
NoTrail == [kind |-> "none", field |-> "Text", bufs |-> << << >>, << >>, << >>, << >> >>,
            before |-> "none"]

\* parse_datetime_with_default_date has not been called.
NotParsed == [done |-> FALSE, result |-> << >>]

\* main has not been entered.
NoMain == [pc |-> "off", cmd |-> "none", err |-> << >>, printed |-> 0, code |-> 0]

\* days_in_month has not been called.
NoDim == [done |-> FALSE, month |-> 1, year |-> 2024, result |-> 0]

\* The editor is not running.
TuiOff ==
    /\ tuiPc = "off"
    /\ keys = 0
    /\ key = "none"
    /\ cycle = NoCycle
    /\ trail = NoTrail
    /\ parsed = NotParsed
    /\ mainRun = NoMain
    /\ dim = NoDim
    /\ AppNew(<< >>)

Init ==
    /\ store = << >>
    /\ now = StartNow
    /\ nextId = 1
    /\ ticks = 0
    /\ edits = 0
    /\ scans = 0
    /\ scanPc = "idle"
    /\ scanRems = << >>
    /\ scanIdx = 0
    /\ scanDue = << >>
    /\ scanDesktop = FALSE
    /\ scanLoaded = << >>
    /\ scanSaves = 0
    /\ scanFault = "none"
    /\ scanEcho = << >>
    /\ noneReports = [i \in 1..MaxCmds |-> 0]
    /\ noneEchoes = [i \in 1..MaxCmds |-> 0]
    /\ ent = EntIdle
    /\ entPrev = EntIdle
    /\ entOp = "none"
    /\ entDue = FALSE
    /\ entMarks = 0
    /\ TuiOff

\* every command, each run to its end
Next ==
    \/ Tick
    \/ Add
    \/ Delete
    \/ CliEdit
    \/ TuiEditCommit
    \/ Notify
    \/ NotifyAborted

Spec == Init /\ [][Next]_vars

\* the commands of the command line alone
CliNext ==
    \/ Tick
    \/ Add
    \/ Delete
    \/ CliEdit
    \/ Notify
    \/ NotifyAborted

SpecCli == Init /\ [][CliNext]_vars

\* the due scan step by step, between the other commands of the command line
ScanNext ==
    \/ Tick
    \/ Add
    \/ Delete
    \/ CliEdit
    \/ ScanStart
    \/ ScanSkip
    \/ ScanNotifyFail
    \/ ScanNotify
    \/ ScanFinish
    \/ ScanReturn

SpecScan == Init /\ [][ScanNext]_vars

(***************************************************************************)
(* One Reminder on its own: is_due and mark_notified applied to a reminder  *)
(* and an instant drawn from bounded sets.                                  *)
(***************************************************************************)
EntDues == {At(2025, 1, 31, 9, 0, 0), At(2024, 1, 31, 9, 0, 0), At(2024, 2, 29, 9, 0, 0),
            At(2024, 12, 31, 23, 59, 59), At(2025, 3, 15, 7, 30, 0),
            At(2025, 2, 1, 9, 0, 0)}

EntLasts == {<< >>, <<StartNow>>, <<StartNow - 86399>>, <<StartNow - 86400>>,
             <<StartNow - 86340>>}

EntReminders ==
    {[id |-> 1, text |-> "Pay rent", due_time |-> d, recurrence |-> rc,
      created_at |-> At(2024, 1, 1, 0, 0, 0), last_notified |-> l, completed |-> c] :
        d \in EntDues, rc \in RecurrenceType, l \in EntLasts, c \in BOOLEAN}

EntInit ==
    /\ store = << >>
    /\ now = StartNow
    /\ nextId = 1
    /\ ticks = 0
    /\ edits = 0
    /\ scans = 0
    /\ scanPc = "idle"
    /\ scanRems = << >>
    /\ scanIdx = 0
    /\ scanDue = << >>
    /\ scanDesktop = FALSE
    /\ scanLoaded = << >>
    /\ scanSaves = 0
    /\ scanFault = "none"
    /\ scanEcho = << >>
    /\ noneReports = [i \in 1..MaxCmds |-> 0]
    /\ noneEchoes = [i \in 1..MaxCmds |-> 0]
    /\ ent \in EntReminders
    /\ entPrev = ent
    /\ entOp = "none"
    /\ entDue = FALSE
    /\ entMarks = 0
    /\ TuiOff

\* reminder.is_due()
EntIsDue ==
    /\ entOp # "panic"
    /\ entDue' = is_due(ent, now)
    /\ entOp' = "is_due"
    /\ UNCHANGED <<now, sysVars, ent, entPrev, entMarks>>

\* reminder.mark_notified()
EntMarkNotified ==
    /\ entOp # "panic"
    /\ entMarks < MaxMarks
    /\ ~mark_notified_panics(ent)
    /\ entPrev' = ent
    /\ ent' = mark_notified(ent, now)
    /\ entOp' = "mark"
    /\ entMarks' = entMarks + 1
    /\ UNCHANGED <<now, sysVars, entDue>>

\* reminder.mark_notified() unwraps None and the process aborts
EntMarkPanics ==
    /\ entOp # "panic"
    /\ entMarks < MaxMarks
    /\ mark_notified_panics(ent)
    /\ entOp' = "panic"
    /\ UNCHANGED <<now, sysVars, ent, entPrev, entDue, entMarks>>

\* the clock advances between the calls
EntTick ==
    /\ entOp # "panic"
    /\ ticks < MaxEntTicks
    /\ \E d \in TickSteps : now' = now + d
    /\ ticks' = ticks + 1
    /\ entOp' = "tick"
    /\ UNCHANGED <<store, nextId, edits, scans, scanVars, histVars, ent, entPrev,
                   entDue, entMarks, tuiVars>>

EntNext ==
    \/ EntIsDue
    \/ EntMarkNotified
    \/ EntMarkPanics
    \/ EntTick

SpecEntity == EntInit /\ [][EntNext]_vars

(***************************************************************************)
(* The interactive editor (tui.rs).  A buffer is a sequence of characters;  *)
(* the texts of the reminders the editor handles are such sequences too.    *)
(***************************************************************************)
DigitChars == <<"0", "1", "2", "3", "4", "5", "6", "7", "8", "9">>

IsDigit(c) == \E i \in 1..10 : DigitChars[i] = c

DigitVal(c) == (CHOOSE i \in 1..10 : DigitChars[i] = c) - 1

\* the value of a run of digits
RECURSIVE Number(_)
Number(cs) ==
    IF cs = << >> THEN 0 ELSE Number(SubSeq(cs, 1, Len(cs) - 1)) * 10 + DigitVal(cs[Len(cs)])

\* chrono's numeric fields read between one and max digits, as many as there are
LeadDigits(cs, max) ==
    CHOOSE n \in 0..Min(max, Len(cs)) :
        /\ \A i \in 1..n : IsDigit(cs[i])
        /\ n = Min(max, Len(cs)) \/ ~IsDigit(cs[n + 1])

Rest(cs, n) == SubSeq(cs, n + 1, Len(cs))

\* zero-padded output of %H, %M, %m, %d and %Y
Pad2(n) == <<DigitChars[((n \div 10) % 10) + 1], DigitChars[(n % 10) + 1]>>
Pad4(n) == Pad2(n \div 100) \o Pad2(n % 100)

\* due_time.format("%H:%M")
format_time(t) == Pad2(hour(t)) \o <<":">> \o Pad2(minute(t))

\* due_time.format("%Y-%m-%d")
format_date(t) == Pad4(year(t)) \o <<"-">> \o Pad2(month(t)) \o <<"-">> \o Pad2(day(t))

\* NaiveTime::parse_from_str(s, "%H:%M"): Some(<<hour, minute>>) or None
parse_time(cs) ==
    LET nh == LeadDigits(cs, 2)
        r1 == Rest(cs, nh)
        r2 == Rest(r1, 1)
        nm == LeadDigits(r2, 2)
    IN  IF /\ nh >= 1
           /\ r1 # << >> /\ r1[1] = ":"
           /\ nm >= 1 /\ nm = Len(r2)
           /\ Number(SubSeq(cs, 1, nh)) <= 23
           /\ Number(r2) <= 59
        THEN << <<Number(SubSeq(cs, 1, nh)), Number(r2)>> >>
        ELSE << >>

\* the "%Y-%m-%d" part of NaiveDateTime::parse_from_str: Some(<<y, m, d>>) or None
parse_date(cs) ==
    LET ny == LeadDigits(cs, 4)
        r1 == Rest(cs, ny)
        r2 == Rest(r1, 1)
        nm == LeadDigits(r2, 2)
        r3 == Rest(r2, nm)
        r4 == Rest(r3, 1)
        nd == LeadDigits(r4, 2)
    IN  IF /\ ny >= 1
           /\ r1 # << >> /\ r1[1] = "-"
           /\ nm >= 1
           /\ r3 # << >> /\ r3[1] = "-"
           /\ nd >= 1 /\ nd = Len(r4)
        THEN << <<Number(SubSeq(cs, 1, ny)), Number(SubSeq(r2, 1, nm)), Number(r4)>> >>
        ELSE << >>

\* cli::parse_datetime on "{date} {time}"
parse_datetime(date, time) ==
    LET d == parse_date(date)
        t == parse_time(time)
    IN  IF d = << >> \/ t = << >> THEN << >>
        ELSE with_ymd_and_hms(d[1][1], d[1][2], d[1][3], t[1][1], t[1][2], 0)

\* cli::parse_datetime_with_default_date: today at that time, or tomorrow when
\* that instant has passed; the date given wins
parse_datetime_never_advanced(time, date) ==
    LET t == parse_time(time)
    IN  IF t = << >> THEN << >>
        ELSE IF date # << >> THEN parse_datetime(date, time)
        ELSE with_ymd_and_hms(year(now), month(now), day(now), t[1][1], t[1][2], 0)

parse_datetime_with_default_date(time, date) ==
    LET t == parse_time(time)
        today == with_ymd_and_hms(year(now), month(now), day(now), t[1][1], t[1][2], 0)[1]
    IN  IF t = << >> THEN << >>
        ELSE IF date # << >> THEN parse_datetime(date, time)
        ELSE IF today < now THEN <<today + 86400>>
        ELSE <<today>>

\* str::to_lowercase on the letters the editor is given
Lower(c) == IF c = "D" THEN "d" ELSE c

to_lowercase(cs) == [i \in 1..Len(cs) |-> Lower(cs[i])]

\* the characters of a Custom payload
Chars(str) == CASE str = "cron" -> <<"c", "r", "o", "n">>
                [] str = "" -> << >>

DailyWord == <<"d", "a", "i", "l", "y">>
WeeklyWord == <<"w", "e", "e", "k", "l", "y">>
MonthlyWord == <<"m", "o", "n", "t", "h", "l", "y">>
YearlyWord == <<"y", "e", "a", "r", "l", "y">>

CustomWord == <<"c", "u", "s", "t", "o", "m">>

\* the name of the variant alone, lower-cased
format_recurrence_name(rec) ==
    CASE rec.tag = "None" -> NoneWord
      [] rec.tag = "Daily" -> DailyWord
      [] rec.tag = "Weekly" -> WeeklyWord
      [] rec.tag = "Monthly" -> MonthlyWord
      [] rec.tag = "Yearly" -> YearlyWord
      [] rec.tag = "Custom" -> CustomWord

\* format!("{:?}", recurrence_type).to_lowercase()
format_recurrence(rec) ==
    CASE rec.tag = "None" -> NoneWord
      [] rec.tag = "Daily" -> DailyWord
      [] rec.tag = "Weekly" -> WeeklyWord
      [] rec.tag = "Monthly" -> MonthlyWord
      [] rec.tag = "Yearly" -> YearlyWord
      [] rec.tag = "Custom" ->
            CustomWord \o <<"(", "\"">> \o to_lowercase(Chars(rec.payload))
                \o <<"\"", ")">>

\* remind_rs's cli::parse_recurrence: any other word is a Custom recurrence
parse_recurrence_permissive(cs) ==
    LET w == to_lowercase(cs)
    IN  CASE w = NoneWord -> <<RecNone>>
          [] w = DailyWord -> <<RecDaily>>
          [] w = WeeklyWord -> <<RecWeekly>>
          [] w = MonthlyWord -> <<RecMonthly>>
          [] w = YearlyWord -> <<RecYearly>>
          [] OTHER -> <<RecCustom(w)>>

\* remindme's cli::parse_recurrence: the five words, in any case, and nothing else
parse_recurrence(cs) ==
    LET w == to_lowercase(cs)
    IN  CASE w = NoneWord -> <<RecNone>>
          [] w = DailyWord -> <<RecDaily>>
          [] w = WeeklyWord -> <<RecWeekly>>
          [] w = MonthlyWord -> <<RecMonthly>>
          [] w = YearlyWord -> <<RecYearly>>
          [] OTHER -> << >>

\* The characters typed into a form.
KeyChars == {"x", "9"}

\* The reminders the store holds when the editor starts.
TuiTexts == <<"x">>

TuiStores ==
    LET r1 == new(1, TuiTexts, At(2025, 2, 1, 9, 0, 0), RecDaily, StartNow)
        r2 == new(2, TuiTexts, At(2025, 1, 31, 18, 30, 0), RecCustom("cron"), StartNow)
        r3 == new(3, TuiTexts, At(2025, 3, 1, 0, 5, 0), RecNone, StartNow)
    IN  {<< >>, <<r1>>, <<r1, r2>>, <<r1, r2, r3>>}

\* main: App::new(storage), then run_app
TuiInit ==
    /\ store \in TuiStores
    /\ now = StartNow
    /\ nextId = Len(store) + 1
    /\ ticks = 0
    /\ edits = 0
    /\ scans = 0
    /\ scanPc = "idle"
    /\ scanRems = << >>
    /\ scanIdx = 0
    /\ scanDue = << >>
    /\ scanDesktop = FALSE
    /\ scanLoaded = << >>
    /\ scanSaves = 0
    /\ scanFault = "none"
    /\ scanEcho = << >>
    /\ noneReports = [i \in 1..MaxCmds |-> 0]
    /\ noneEchoes = [i \in 1..MaxCmds |-> 0]
    /\ ent = EntIdle
    /\ entPrev = EntIdle
    /\ entOp = "none"
    /\ entDue = FALSE
    /\ entMarks = 0
    /\ tuiPc = "running"
    /\ keys = 0
    /\ key = "none"
    /\ cycle = NoCycle
    /\ trail = NoTrail
    /\ parsed = NotParsed
    /\ mainRun = NoMain
    /\ dim = NoDim
    /\ AppNew(store)

\* event::read() hands run_app the next key event
Read(k) ==
    /\ tuiPc = "running"
    /\ keys < MaxKeys
    /\ keys' = keys + 1
    /\ key' = k
    /\ cycle' = IF k \notin {"Tab", "BackTab"} THEN NoCycle
                ELSE IF cycle.kind = k THEN [cycle EXCEPT !.count = @ + 1]
                ELSE [kind |-> k, from |-> active_field, count |-> 1]
    /\ trail' = IF k \in {"Tab", "BackTab"}
                THEN [kind |-> k, field |-> active_field, bufs |-> bufVars,
                      before |-> trail.kind]
                ELSE NoTrail

outside == <<now, ticks, edits, scans, scanVars, histVars, entVars, parsed, mainRun, dim>>

Normal == input_mode = "Normal"
Editing == input_mode = "Editing"

\* 'q' in Normal mode
KeyQ ==
    /\ Read("q")
    /\ Normal
    /\ tuiPc' = "quit"
    /\ UNCHANGED <<store, nextId, outside, reminders, current_view, input_mode,
                   active_field, selected_index, bufVars, editing_reminder_id,
                   error_message>>

\* 'a' in Normal mode
KeyA ==
    /\ Read("a")
    /\ Normal
    /\ current_view' = "Add"
    /\ input_mode' = "Editing"
    /\ active_field' = "Text"
    /\ error_message' = << >>
    /\ UNCHANGED <<store, nextId, outside, tuiPc, reminders, selected_index, bufVars,
                   editing_reminder_id>>

\* App::start_editing_selected_reminder
start_editing_selected_reminder ==
    LET reminder == reminders[selected_index + 1]
    IN  /\ editing_reminder_id' = <<reminder.id>>
        /\ new_reminder_text' = reminder.text
        /\ new_reminder_time' = format_time(reminder.due_time)
        /\ new_reminder_date' = format_date(reminder.due_time)
        /\ new_reminder_recurrence' = format_recurrence(reminder.recurrence)
        /\ current_view' = "Edit"
        /\ input_mode' = "Editing"
        /\ active_field' = "Text"
        /\ error_message' = << >>

\* 'e' in Normal mode
KeyE ==
    /\ Read("e")
    /\ Normal
    /\ IF current_view = "List" /\ reminders # << >>
       THEN start_editing_selected_reminder
       ELSE UNCHANGED <<current_view, input_mode, active_field, bufVars,
                        editing_reminder_id, error_message>>
    /\ UNCHANGED <<store, nextId, outside, tuiPc, reminders, selected_index>>

\* 'h' in Normal mode
KeyH ==
    /\ Read("h")
    /\ Normal
    /\ current_view' = "Help"
    /\ UNCHANGED <<store, nextId, outside, tuiPc, reminders, input_mode, active_field,
                   selected_index, bufVars, editing_reminder_id, error_message>>

\* 'l' in Normal mode, with App::refresh_reminders
KeyL ==
    /\ Read("l")
    /\ Normal
    /\ current_view' = "List"
    /\ reminders' = store
    /\ UNCHANGED <<store, nextId, outside, tuiPc, input_mode, active_field,
                   selected_index, bufVars, editing_reminder_id, error_message>>

\* the selection after a delete: back onto the list when it fell off its end
clamp_selection_keeps(idx, len) == idx

clamp_selection(idx, len) == IF idx >= len /\ len # 0 THEN len - 1 ELSE idx

\* 'd' in Normal mode
KeyD ==
    /\ Read("d")
    /\ Normal
    /\ IF current_view = "List" /\ reminders # << >>
       THEN /\ store' = delete_reminder(store, reminders[selected_index + 1].id)
            /\ reminders' = store'
            /\ selected_index' = clamp_selection(selected_index, Len(reminders'))
       ELSE UNCHANGED <<store, reminders, selected_index>>
    /\ UNCHANGED <<nextId, outside, tuiPc, current_view, input_mode, active_field,
                   bufVars, editing_reminder_id, error_message>>

\* Up in Normal mode
KeyUp ==
    /\ Read("Up")
    /\ Normal
    /\ selected_index' = IF selected_index > 0 THEN selected_index - 1 ELSE selected_index
    /\ UNCHANGED <<store, nextId, outside, tuiPc, reminders, current_view, input_mode,
                   active_field, bufVars, editing_reminder_id, error_message>>

\* Down in Normal mode
KeyDown ==
    /\ Read("Down")
    /\ Normal
    /\ selected_index' =
          IF reminders # << >> /\ selected_index < Len(reminders) - 1
          THEN selected_index + 1
          ELSE selected_index
    /\ UNCHANGED <<store, nextId, outside, tuiPc, reminders, current_view, input_mode,
                   active_field, bufVars, editing_reminder_id, error_message>>

\* Esc in Editing mode
KeyEsc ==
    /\ Read("Esc")
    /\ Editing
    /\ input_mode' = "Normal"
    /\ current_view' = "List"
    /\ error_message' = << >>
    /\ UNCHANGED <<store, nextId, outside, tuiPc, reminders, active_field,
                   selected_index, bufVars, editing_reminder_id>>

\* a validation failure of either form: the message, and nothing else
RejectedToList(msg) ==
    /\ error_message' = <<msg>>
    /\ current_view' = "List"
    /\ input_mode' = "Normal"
    /\ UNCHANGED <<store, nextId, reminders, bufVars, editing_reminder_id>>

Rejected(msg) ==
    /\ error_message' = <<msg>>
    /\ UNCHANGED <<store, nextId, reminders, current_view, input_mode, bufVars,
                   editing_reminder_id>>

\* the tail of a commit: the form is cleared and the list comes back
clear_form_stays_editing ==
    /\ new_reminder_text' = << >>
    /\ new_reminder_time' = << >>
    /\ new_reminder_date' = << >>
    /\ new_reminder_recurrence' = NoneWord
    /\ error_message' = << >>
    /\ current_view' = "List"
    /\ UNCHANGED input_mode

clear_form ==
    /\ new_reminder_text' = << >>
    /\ new_reminder_time' = << >>
    /\ new_reminder_date' = << >>
    /\ new_reminder_recurrence' = NoneWord
    /\ error_message' = << >>
    /\ current_view' = "List"
    /\ input_mode' = "Normal"

\* App::create_reminder
create_reminder ==
    LET due_time == parse_datetime_with_default_date(new_reminder_time, new_reminder_date)
        recurrence_type == parse_recurrence(new_reminder_recurrence)
    IN  IF new_reminder_text = << >> THEN Rejected("Reminder text cannot be empty")
        ELSE IF new_reminder_time = << >> THEN Rejected("Time must be specified (HH:MM)")
        ELSE IF due_time = << >> THEN Rejected("Invalid date/time")
        ELSE IF recurrence_type = << >> THEN Rejected("Invalid recurrence")
        ELSE /\ store' = add_reminder(store, new(nextId, new_reminder_text, due_time[1],
                                                  recurrence_type[1], now))
             /\ nextId' = nextId + 1
             /\ clear_form
             /\ reminders' = store'
             /\ UNCHANGED editing_reminder_id

\* App::update_reminder
app_update_reminder ==
    LET due_time == parse_datetime_with_default_date(new_reminder_time, new_reminder_date)
        recurrence_type == parse_recurrence(new_reminder_recurrence)
    IN  IF new_reminder_text = << >> THEN Rejected("Reminder text cannot be empty")
        ELSE IF new_reminder_time = << >> THEN Rejected("Time must be specified (HH:MM)")
        ELSE IF due_time = << >> THEN Rejected("Invalid date/time")
        ELSE IF recurrence_type = << >> THEN Rejected("Invalid recurrence")
        ELSE IF editing_reminder_id # << >>
        THEN /\ store' = update_reminder(store,
                              new_with_id(editing_reminder_id[1], new_reminder_text,
                                          due_time[1], recurrence_type[1]))
             /\ clear_form
             /\ editing_reminder_id' = << >>
             /\ reminders' = store'
             /\ UNCHANGED nextId
        ELSE UNCHANGED <<store, nextId, reminders, current_view, input_mode, bufVars,
                         editing_reminder_id, error_message>>

\* the field Enter and Tab move to
next_field_stops(f) ==
    CASE f = "Text" -> "Time"
      [] f = "Time" -> "Date"
      [] f = "Date" -> "Recurrence"
      [] OTHER -> "Submit"

next_field(f) ==
    CASE f = "Text" -> "Time"
      [] f = "Time" -> "Date"
      [] f = "Date" -> "Recurrence"
      [] f = "Recurrence" -> "Submit"
      [] f = "Submit" -> "Text"

\* the field BackTab moves to
previous_field_stops(f) ==
    CASE f = "Submit" -> "Recurrence"
      [] f = "Recurrence" -> "Date"
      [] f = "Date" -> "Time"
      [] OTHER -> "Text"

previous_field(f) ==
    CASE f = "Text" -> "Submit"
      [] f = "Time" -> "Text"
      [] f = "Date" -> "Time"
      [] f = "Recurrence" -> "Date"
      [] f = "Submit" -> "Recurrence"

\* Enter in Editing mode
KeyEnter ==
    /\ Read("Enter")
    /\ Editing
    /\ IF current_view \in {"Add", "Edit"} /\ active_field # "Submit"
       THEN /\ active_field' = next_field(active_field)
            /\ UNCHANGED <<store, nextId, reminders, current_view, input_mode, bufVars,
                           editing_reminder_id, error_message>>
       ELSE /\ UNCHANGED active_field
            /\ IF current_view = "Add" THEN create_reminder
               ELSE IF current_view = "Edit" THEN app_update_reminder
               ELSE UNCHANGED <<store, nextId, reminders, current_view, input_mode,
                                bufVars, editing_reminder_id, error_message>>
    /\ UNCHANGED <<outside, tuiPc, selected_index>>

\* Tab in Editing mode
KeyTab ==
    /\ Read("Tab")
    /\ Editing
    /\ IF current_view = "Add"
       THEN /\ active_field' = next_field(active_field)
            /\ new_reminder_recurrence' =
                  IF active_field = "Date" /\ new_reminder_recurrence = << >>
                  THEN NoneWord
                  ELSE new_reminder_recurrence
       ELSE UNCHANGED <<active_field, new_reminder_recurrence>>
    /\ UNCHANGED <<store, nextId, outside, tuiPc, reminders, current_view, input_mode,
                   selected_index, new_reminder_text, new_reminder_time,
                   new_reminder_date, editing_reminder_id, error_message>>

\* BackTab in Editing mode
KeyBackTab ==
    /\ Read("BackTab")
    /\ Editing
    /\ active_field' =
          IF current_view = "Add" THEN previous_field(active_field) ELSE active_field
    /\ UNCHANGED <<store, nextId, outside, tuiPc, reminders, current_view, input_mode,
                   selected_index, bufVars, editing_reminder_id, error_message>>

\* App::get_active_input_mut: the buffer of the active field
get_active_input ==
    CASE active_field = "Text" -> new_reminder_text
      [] active_field = "Time" -> new_reminder_time
      [] active_field = "Date" -> new_reminder_date
      [] active_field = "Recurrence" -> new_reminder_recurrence

\* a write through the reference get_active_input_mut returns
set_active_input(cs) ==
    /\ new_reminder_text' = IF active_field = "Text" THEN cs ELSE new_reminder_text
    /\ new_reminder_time' = IF active_field = "Time" THEN cs ELSE new_reminder_time
    /\ new_reminder_date' = IF active_field = "Date" THEN cs ELSE new_reminder_date
    /\ new_reminder_recurrence' =
          IF active_field = "Recurrence" THEN cs ELSE new_reminder_recurrence

\* String::pop
pop(cs) == IF cs = << >> THEN cs ELSE SubSeq(cs, 1, Len(cs) - 1)

\* a character key in Editing mode
KeyChar ==
    /\ Editing
    /\ \E c \in KeyChars :
          /\ Read(c)
          /\ IF current_view = "Add" /\ active_field # "Submit"
             THEN set_active_input(Append(get_active_input, c))
             ELSE UNCHANGED bufVars
    /\ UNCHANGED <<store, nextId, outside, tuiPc, reminders, current_view, input_mode,
                   active_field, selected_index, editing_reminder_id, error_message>>

\* Backspace in Editing mode
KeyBackspace ==
    /\ Read("Backspace")
    /\ Editing
    /\ IF current_view = "Add" /\ active_field # "Submit"
       THEN set_active_input(pop(get_active_input))
       ELSE UNCHANGED bufVars
    /\ UNCHANGED <<store, nextId, outside, tuiPc, reminders, current_view, input_mode,
                   active_field, selected_index, editing_reminder_id, error_message>>

TuiNext ==
    \/ KeyQ
    \/ KeyA
    \/ KeyE
    \/ KeyH
    \/ KeyL
    \/ KeyD
    \/ KeyUp
    \/ KeyDown
    \/ KeyEsc
    \/ KeyEnter
    \/ KeyTab
    \/ KeyBackTab
    \/ KeyChar
    \/ KeyBackspace

SpecTui == TuiInit /\ [][TuiNext]_vars

(***************************************************************************)
(* cli::parse_datetime_with_default_date on its own: a clock, a time string *)
(* and an optional date string, and one call.                               *)
(***************************************************************************)
ParseNows == {At(2025, 1, 31, 14, 0, 0), At(2025, 1, 31, 14, 0, 30), At(2025, 1, 31, 0, 0, 0),
              At(2025, 12, 31, 23, 59, 59), At(2024, 2, 28, 12, 0, 0)}

ParseTimes == {<<"1", "0", ":", "0", "0">>,
               <<"1", "8", ":", "0", "0">>,
               <<"1", "4", ":", "0", "0">>,
               <<"0", ":", "0", "0">>,
               <<"2", "3", ":", "5", "9">>,
               <<"9", ":", "5">>,
               <<"2", "4", ":", "0", "0">>,
               <<"x">>}

ParseDates == {<< >>,
               <<"2", "0", "2", "5", "-", "0", "2", "-", "0", "1">>,
               <<"2", "0", "2", "4", "-", "0", "1", "-", "0", "1">>,
               <<"2", "0", "2", "5", "-", "0", "2", "-", "3", "0">>}

ParseInit ==
    /\ store = << >>
    /\ now \in ParseNows
    /\ nextId = 1
    /\ ticks = 0
    /\ edits = 0
    /\ scans = 0
    /\ scanPc = "idle"
    /\ scanRems = << >>
    /\ scanIdx = 0
    /\ scanDue = << >>
    /\ scanDesktop = FALSE
    /\ scanLoaded = << >>
    /\ scanSaves = 0
    /\ scanFault = "none"
    /\ scanEcho = << >>
    /\ noneReports = [i \in 1..MaxCmds |-> 0]
    /\ noneEchoes = [i \in 1..MaxCmds |-> 0]
    /\ ent = EntIdle
    /\ entPrev = EntIdle
    /\ entOp = "none"
    /\ entDue = FALSE
    /\ entMarks = 0
    /\ tuiPc = "off"
    /\ keys = 0
    /\ key = "none"
    /\ cycle = NoCycle
    /\ trail = NoTrail
    /\ parsed = NotParsed
    /\ mainRun = NoMain
    /\ dim = NoDim
    /\ reminders = << >>
    /\ current_view = "List"
    /\ input_mode = "Normal"
    /\ active_field = "Text"
    /\ selected_index = 0
    /\ new_reminder_text = << >>
    /\ new_reminder_time \in ParseTimes
    /\ new_reminder_date \in ParseDates
    /\ new_reminder_recurrence = NoneWord
    /\ editing_reminder_id = << >>
    /\ error_message = << >>

\* parse_datetime_with_default_date(time_str, date_option)
ParseCall ==
    /\ ~parsed.done
    /\ parsed' = [done |-> TRUE,
                  result |-> parse_datetime_with_default_date(new_reminder_time,
                                                              new_reminder_date)]
    /\ UNCHANGED <<store, nextId, now, ticks, edits, scans, scanVars, histVars, entVars,
                   tuiPc, keys, key, cycle, trail, mainRun, dim, reminders, current_view, input_mode,
                   active_field, selected_index, bufVars, editing_reminder_id,
                   error_message>>

ParseNext == ParseCall

SpecParse == ParseInit /\ [][ParseNext]_vars

(***************************************************************************)
(* main (main.rs): run returns Ok or an error, a chain of messages with the  *)
(* outermost context first; main prints the chain and picks the exit code.   *)
(* Messages are sequences of characters.                                     *)
(***************************************************************************)
\* the context run puts on Storage::new
InitFailed ==
    <<"F", "a", "i", "l", "e", "d", " ", "t", "o", " ", "i", "n", "i", "t", "i", "a",
      "l", "i", "z", "e", " ", "s", "t", "o", "r", "a", "g", "e">>

\* Storage::new's own error
NoConfigDir ==
    <<"F", "a", "i", "l", "e", "d", " ", "t", "o", " ", "d", "e", "t", "e", "r", "m",
      "i", "n", "e", " ", "c", "o", "n", "f", "i", "g", " ", "d", "i", "r", "e", "c",
      "t", "o", "r", "y">>

\* the io::Error of EACCES, as std prints it
OsPermissionDenied ==
    <<"P", "e", "r", "m", "i", "s", "s", "i", "o", "n", " ", "d", "e", "n", "i", "e",
      "d", " ", "(", "o", "s", " ", "e", "r", "r", "o", "r", " ", "1", "3", ")">>

\* the context of Storage::load
ParseFailed ==
    <<"F", "a", "i", "l", "e", "d", " ", "t", "o", " ", "p", "a", "r", "s", "e", " ",
      "r", "e", "m", "i", "n", "d", "e", "r", "s", " ", "f", "r", "o", "m", " ", "J",
      "S", "O", "N">>

\* the context of Storage::save
CreateFailed ==
    <<"F", "a", "i", "l", "e", "d", " ", "t", "o", " ", "c", "r", "e", "a", "t", "e",
      " ", "o", "r", " ", "o", "p", "e", "n", " ", "r", "e", "m", "i", "n", "d", "e",
      "r", "s", " ", "f", "i", "l", "e">>

\* the start of the error of parse_recurrence
BadRecurrence ==
    <<"I", "n", "v", "a", "l", "i", "d", " ", "r", "e", "c", "u", "r", "r", "e", "n",
      "c", "e", " ", "t", "y", "p", "e">>

\* a serde_json error
BadJson ==
    <<"e", "x", "p", "e", "c", "t", "e", "d", " ", "v", "a", "l", "u", "e", " ", "a",
      "t", " ", "l", "i", "n", "e", " ", "1", " ", "c", "o", "l", "u", "m", "n", " ",
      "1">>

\* the second text is_critical_error looks for
Needle ==
    <<"p", "e", "r", "m", "i", "s", "s", "i", "o", "n", " ", "d", "e", "n", "i", "e",
      "d">>

\* str::contains
contains(str, pat) ==
    \E i \in 1..(Len(str) + 1) :
        i + Len(pat) - 1 <= Len(str) /\ SubSeq(str, i, i + Len(pat) - 1) = pat

\* anyhow's Display: the outermost message of the chain
to_string(err) == err[1]

\* is_critical_error: both needles are looked for in to_string alone
is_critical_error(err) ==
    \/ contains(to_string(err), InitFailed)
    \/ contains(to_string(err), Needle)

Commands == {"Add", "List", "Delete", "Edit", "Notify", "Export", "Tui"}

\* The errors run can return: Storage::new fails for every command, load fails
\* for every command, save for those that write, parse_recurrence for Add and
\* Edit.
RunErrors(cmd) ==
    {<<InitFailed, NoConfigDir>>, <<InitFailed, OsPermissionDenied>>,
     <<OsPermissionDenied>>, <<ParseFailed, BadJson>>}
    \cup (IF cmd \in {"Add", "Delete", "Edit", "Notify", "Tui"}
          THEN {<<CreateFailed, OsPermissionDenied>>} ELSE {})
    \cup (IF cmd \in {"Add", "Edit"} THEN {<<BadRecurrence>>} ELSE {})

MainInit ==
    /\ store = << >>
    /\ now = StartNow
    /\ nextId = 1
    /\ ticks = 0
    /\ edits = 0
    /\ scans = 0
    /\ scanPc = "idle"
    /\ scanRems = << >>
    /\ scanIdx = 0
    /\ scanDue = << >>
    /\ scanDesktop = FALSE
    /\ scanLoaded = << >>
    /\ scanSaves = 0
    /\ scanFault = "none"
    /\ scanEcho = << >>
    /\ noneReports = [i \in 1..MaxCmds |-> 0]
    /\ noneEchoes = [i \in 1..MaxCmds |-> 0]
    /\ ent = EntIdle
    /\ entPrev = EntIdle
    /\ entOp = "none"
    /\ entDue = FALSE
    /\ entMarks = 0
    /\ tuiPc = "off"
    /\ keys = 0
    /\ key = "none"
    /\ cycle = NoCycle
    /\ trail = NoTrail
    /\ parsed = NotParsed
    /\ dim = NoDim
    /\ AppNew(<< >>)
    /\ \E cmd \in Commands : mainRun = [NoMain EXCEPT !.pc = "run", !.cmd = cmd]

mainFrame == <<store, now, nextId, ticks, edits, scans, scanVars, histVars, entVars,
               tuiPc, keys, key, cycle, trail, parsed, dim, reminders, current_view, input_mode,
               active_field, selected_index, bufVars, editing_reminder_id,
               error_message>>

\* run() returns Ok(())
RunOk ==
    /\ mainRun.pc = "run"
    /\ mainRun' = [mainRun EXCEPT !.pc = "exited", !.code = 0]
    /\ UNCHANGED mainFrame

\* run() returns Err(e)
RunErr ==
    /\ mainRun.pc = "run"
    /\ \E err \in RunErrors(mainRun.cmd) :
          mainRun' = [mainRun EXCEPT !.pc = "failed", !.err = err]
    /\ UNCHANGED mainFrame

\* main: eprintln of the error, then of one cause
MainReport ==
    /\ mainRun.pc = "failed"
    /\ mainRun.printed < Len(mainRun.err)
    /\ mainRun' = [mainRun EXCEPT !.printed = @ + 1]
    /\ UNCHANGED mainFrame

\* main: exit(1) for a critical error, the end of main otherwise
MainExit ==
    /\ mainRun.pc = "failed"
    /\ mainRun.printed = Len(mainRun.err)
    /\ mainRun' = [mainRun EXCEPT !.pc = "exited",
                                  !.code = IF is_critical_error(mainRun.err) THEN 1 ELSE 0]
    /\ UNCHANGED mainFrame

MainNext ==
    \/ RunOk
    \/ RunErr
    \/ MainReport
    \/ MainExit

SpecMain == MainInit /\ [][MainNext]_vars

(***************************************************************************)
(* days_in_month on its own: a month, a year, and one call.                 *)
(***************************************************************************)
DimYears == {1900, 1999, 2000, 2023, 2024, 2025, 2028, 2100, 2200, 2400}

DimInit ==
    /\ store = << >>
    /\ now = StartNow
    /\ nextId = 1
    /\ ticks = 0
    /\ edits = 0
    /\ scans = 0
    /\ scanPc = "idle"
    /\ scanRems = << >>
    /\ scanIdx = 0
    /\ scanDue = << >>
    /\ scanDesktop = FALSE
    /\ scanLoaded = << >>
    /\ scanSaves = 0
    /\ scanFault = "none"
    /\ scanEcho = << >>
    /\ noneReports = [i \in 1..MaxCmds |-> 0]
    /\ noneEchoes = [i \in 1..MaxCmds |-> 0]
    /\ ent = EntIdle
    /\ entPrev = EntIdle
    /\ entOp = "none"
    /\ entDue = FALSE
    /\ entMarks = 0
    /\ tuiPc = "off"
    /\ keys = 0
    /\ key = "none"
    /\ cycle = NoCycle
    /\ trail = NoTrail
    /\ parsed = NotParsed
    /\ mainRun = NoMain
    /\ AppNew(<< >>)
    /\ \E m \in 1..12, y \in DimYears : dim = [NoDim EXCEPT !.month = m, !.year = y]

\* days_in_month(month, year)
DimCall ==
    /\ ~dim.done
    /\ dim' = [dim EXCEPT !.done = TRUE, !.result = days_in_month(dim.month, dim.year)]
    /\ UNCHANGED <<store, now, nextId, ticks, edits, scans, scanVars, histVars, entVars,
                   tuiPc, keys, key, cycle, trail, parsed, mainRun, reminders, current_view,
                   input_mode, active_field, selected_index, bufVars,
                   editing_reminder_id, error_message>>

DimNext == DimCall

SpecDim == DimInit /\ [][DimNext]_vars

(***************************************************************************)
(* Properties.                                                              *)
(***************************************************************************)
Notifiable(r, t) ==
    /\ r.due_time <= t
    /\ ~r.completed
    /\ r.last_notified # << >>
    /\ r.recurrence.tag # "None"

\* C1: is_due is true exactly when due_time <= now, the reminder is not completed,
\* and it was never notified or it recurs and at least 24 hours (86400 seconds)
\* have passed since the last notification; 23h59m after it the reminder is not
\* due, 24h00m after it the reminder is due.
IsDueContract ==
    entOp = "is_due" =>
        /\ entDue = (/\ ent.due_time <= now
                     /\ ~ent.completed
                     /\ \/ ent.last_notified = << >>
                        \/ /\ ent.recurrence.tag # "None"
                           /\ now - ent.last_notified[1] >= 86400)
        /\ (Notifiable(ent, now) /\ now - ent.last_notified[1] = 86340) => ~entDue
        /\ (Notifiable(ent, now) /\ now - ent.last_notified[1] = 86400) => entDue

IsDueWitness ==
    /\ entOp = "is_due"
    /\ Notifiable(ent, now)
    /\ now - ent.last_notified[1] = 86340
    /\ ~entDue

\* C2 as stated: a reminder whose recurrence is None is notified by at most one
\* scan, whatever the scans of the sequence are.
NoneEchoedOnce ==
    \A i \in DOMAIN noneEchoes : noneEchoes[i] <= 1

\* C2 as amended: a reminder whose recurrence is None is returned as due by at
\* most one scan, no scan echoes it once its last_notified is stored, and
\* once its last_notified is set it is not due at any later instant.
NoneNotifiedOnce ==
    /\ \A i \in DOMAIN noneReports : noneReports[i] <= 1
    /\ \A i \in 1..Len(store) :
          (store[i].recurrence.tag = "None" /\ store[i].last_notified # << >>)
              => ~is_due(store[i], now)
    /\ \A i \in 1..Len(scanLoaded) :
          (scanLoaded[i].recurrence.tag = "None" /\ scanLoaded[i].last_notified # << >>)
              => \A k \in 1..Len(scanEcho) : scanEcho[k] # scanLoaded[i].id

NoneNotifiedOnceWitness ==
    /\ scanPc = "ok"
    /\ scanDue # << >>
    /\ \E i \in 1..Len(scanLoaded) :
          /\ scanLoaded[i].recurrence.tag = "None"
          /\ scanLoaded[i].last_notified # << >>
          /\ now - scanLoaded[i].last_notified[1] >= 86400
          /\ noneReports[scanLoaded[i].id] = 1

\* C3: every stored reminder that is completed has recurrence None.
CompletedOnlyNone ==
    \A i \in 1..Len(store) : store[i].completed => store[i].recurrence.tag = "None"

\* C4: the last_notified of a stored reminder, once set, is never unset and never
\* replaced by an earlier instant, by a scan or by an Edit.
LastNotifiedNeverBackward ==
    [][\A i \in 1..Len(store) : \A j \in 1..Len(store') :
          (store[i].id = store'[j].id /\ store[i].last_notified # << >>)
              => /\ store'[j].last_notified # << >>
                 /\ store'[j].last_notified[1] >= store[i].last_notified[1]]_vars

\* C5: the id and created_at of a stored reminder never change, and an Edit
\* changes nothing but text, due_time and recurrence.
IdAndCreatedAtFixed ==
    [][/\ \A i \in 1..Len(store) : \A j \in 1..Len(store') :
             store[i].id = store'[j].id => store[i].created_at = store'[j].created_at
       /\ Len(store') = Len(store) =>
             \A i \in 1..Len(store) :
                /\ store'[i].id = store[i].id
                /\ store'[i].created_at = store[i].created_at
                /\ edits' # edits =>
                      /\ store'[i].last_notified = store[i].last_notified
                      /\ store'[i].completed = store[i].completed]_vars

\* C6: a failure of a notification sink never aborts the scan: a scan ends in
\* an error only through a persistence failure.
SinkFailureNeverAborts ==
    scanPc = "err" => scanFault \in {"load", "reload", "save"}

\* C7: a scan that completes returns exactly the reminders of the loaded
\* collection that were due, each once and in collection order.
ScanReturnsExactlyDue ==
    scanPc = "ok" => scanDue = DueOf(scanLoaded)

ScanReturnsWitness ==
    /\ scanPc = "ok"
    /\ Len(scanDue) >= 1
    /\ Len(scanDue) < Len(scanLoaded)
    /\ ~is_due(scanLoaded[1], now)

\* C8 as stated: one save per scan, after every due reminder has been
\* processed, and no state in which only some due reminders are persisted.
SingleSavePerScan ==
    /\ scanPc = "ok" => scanSaves = 1
    /\ scanPc = "running" => store = scanLoaded

\* C8 as amended: the scan saves the whole collection once per due reminder,
\* right after marking it, so the store holds the reminders processed so far as
\* marked and the others as loaded.
SavePerDueReminder ==
    scanPc \in {"running", "ok"} =>
        /\ scanSaves = Len(scanDue)
        /\ store = scanRems
        /\ \A i \in 1..Len(scanRems) : i >= scanIdx => scanRems[i] = scanLoaded[i]

SavePerDueWitness ==
    /\ scanPc = "running"
    /\ scanSaves = 1
    /\ store # scanLoaded
    /\ scanIdx <= Len(scanRems)
    /\ is_due(scanRems[scanIdx], now)

\* C9: a persistence failure ends the scan in an error at that point, and no
\* reminder after the failing one is echoed or notified.
PersistenceFailureAborts ==
    scanFault \in {"load", "reload", "save"} =>
        /\ scanPc = "err"
        /\ Len(scanEcho) =
              Len(DueOf(SubSeq(scanLoaded, 1, scanIdx)))
        /\ scanFault = "load" => scanEcho = << >>
        /\ scanFault \in {"reload", "save"} =>
              store = [i \in 1..Len(scanLoaded) |->
                          IF i < scanIdx THEN scanRems[i] ELSE scanLoaded[i]]

PersistenceFailureWitness ==
    /\ scanPc = "err"
    /\ scanFault = "save"
    /\ scanIdx < Len(scanRems)
    /\ is_due(scanRems[scanIdx + 1], now)

\* C10: for a Monthly reminder mark_notified moves due_time to the next calendar
\* month (December to January of the next year), on day min(day, length of that
\* month), at the same hour, minute and second.
MonthlyRollover ==
    (entOp = "mark" /\ entPrev.recurrence.tag = "Monthly") =>
        LET d == entPrev.due_time
            n == ent.due_time
            tm == IF month(d) = 12 THEN 1 ELSE month(d) + 1
            ty == IF month(d) = 12 THEN year(d) + 1 ELSE year(d)
        IN  /\ year(n) = ty
            /\ month(n) = tm
            /\ day(n) = Min(day(d), MonthLen(tm, ty))
            /\ hour(n) = hour(d) /\ minute(n) = minute(d) /\ second(n) = second(d)
            /\ d = At(2025, 1, 31, 9, 0, 0) => n = At(2025, 2, 28, 9, 0, 0)
            /\ d = At(2024, 1, 31, 9, 0, 0) => n = At(2024, 2, 29, 9, 0, 0)

MonthlyRolloverWitness ==
    /\ entOp = "mark"
    /\ entPrev.recurrence.tag = "Monthly"
    /\ entPrev.due_time = At(2025, 1, 31, 9, 0, 0)
    /\ ent.due_time = At(2025, 2, 28, 9, 0, 0)

\* the last operation was a mark_notified that returned, on a reminder of this
\* recurrence
Marked(tag) == entOp = "mark" /\ entPrev.recurrence.tag = tag

\* C11: for a reminder with recurrence None mark_notified sets completed to true
\* and last_notified to now and changes no other field.
MarkNoneCompletes ==
    Marked("None") =>
        ent = [entPrev EXCEPT !.completed = TRUE, !.last_notified = <<now>>]

MarkNoneWitness ==
    /\ Marked("None")
    /\ ~entPrev.completed
    /\ entPrev.last_notified = << >>
    /\ ent.completed
    /\ ent.due_time = entPrev.due_time

\* C12: for a Daily (Weekly) reminder each mark_notified advances due_time by
\* exactly 86400 (604800) seconds, however far in the past due_time lies, and
\* leaves completed as it was.
DailyWeeklyAdvance ==
    /\ Marked("Daily") =>
          /\ ent.due_time = entPrev.due_time + 86400
          /\ ent.completed = entPrev.completed
    /\ Marked("Weekly") =>
          /\ ent.due_time = entPrev.due_time + 604800
          /\ ent.completed = entPrev.completed

DailyWeeklyWitness ==
    /\ Marked("Weekly")
    /\ entMarks = 2
    /\ ~ent.completed
    /\ now - entPrev.due_time > 300 * 86400
    /\ ent.due_time = At(2024, 2, 14, 9, 0, 0)

\* C13: for a Yearly reminder mark_notified returns, with due_time at the same
\* month, day, hour, minute and second of the next year and completed as it was.
YearlyAdvance ==
    /\ entOp = "panic" => ent.recurrence.tag # "Yearly"
    /\ Marked("Yearly") =>
          /\ year(ent.due_time) = year(entPrev.due_time) + 1
          /\ month(ent.due_time) = month(entPrev.due_time)
          /\ day(ent.due_time) = day(entPrev.due_time)
          /\ hour(ent.due_time) = hour(entPrev.due_time)
          /\ minute(ent.due_time) = minute(entPrev.due_time)
          /\ second(ent.due_time) = second(entPrev.due_time)
          /\ ent.completed = entPrev.completed

\* C14 as stated: for a Custom reminder mark_notified changes no field at all.
MarkCustomNoOp ==
    Marked("Custom") => ent = entPrev

\* C14 as amended: for a Custom reminder mark_notified sets last_notified to now
\* and changes no other field: due_time and completed stay as they were.
MarkCustomOnlyStamps ==
    Marked("Custom") => ent = [entPrev EXCEPT !.last_notified = <<now>>]

MarkCustomWitness ==
    /\ Marked("Custom")
    /\ entPrev.last_notified = << >>
    /\ ent.last_notified = <<now>>
    /\ ent.due_time = entPrev.due_time
    /\ ~ent.completed

\* C15 as stated: on a None reminder every mark_notified after the first one
\* leaves the reminder equal in every field.
NoneSecondMarkNoOp ==
    (Marked("None") /\ entMarks >= 2) => ent = entPrev

\* C15 as amended: on a None reminder the first mark_notified leaves completed
\* true, and every later one changes nothing but last_notified, which becomes the
\* instant of that call.
NoneSecondMarkOnlyStamps ==
    /\ Marked("None") => ent.completed
    /\ (Marked("None") /\ entMarks >= 2) =>
          /\ entPrev.completed
          /\ ent = [entPrev EXCEPT !.last_notified = <<now>>]

NoneSecondMarkWitness ==
    /\ Marked("None")
    /\ entMarks = 2
    /\ ent.completed
    /\ ent.last_notified # entPrev.last_notified

Recurring == {"Daily", "Weekly", "Monthly", "Yearly"}

\* C16: a Daily, Weekly, Monthly or Yearly reminder that is due with
\* last_notified unset is, right after mark_notified at that instant, not
\* completed and not due, and is_due stays false as long as fewer than 24 whole
\* hours have passed since that instant.
RecurringQuietForADay ==
    /\ (/\ entOp = "mark"
        /\ entPrev.recurrence.tag \in Recurring
        /\ entPrev.last_notified = << >>
        /\ is_due(entPrev, now))
          => (~ent.completed /\ ~is_due(ent, now))
    /\ (/\ entOp = "is_due"
        /\ entMarks = 1
        /\ ent.recurrence.tag \in Recurring
        /\ entPrev.last_notified = << >>
        /\ is_due(entPrev, ent.last_notified[1])
        /\ now - ent.last_notified[1] < 86400)
          => ~entDue

RecurringQuietWitness ==
    /\ entOp = "is_due"
    /\ entMarks = 1
    /\ ent.recurrence.tag = "Daily"
    /\ entPrev.last_notified = << >>
    /\ is_due(entPrev, ent.last_notified[1])
    /\ now - ent.last_notified[1] = 60
    /\ ent.due_time <= now
    /\ ~entDue

\* C17 as stated: after mark_notified on a Daily reminder that is due at now,
\* due_time is later than now.
DailyLandsInFuture ==
    (Marked("Daily") /\ is_due(entPrev, now)) => ent.due_time > now

\* C17 as amended: after mark_notified on a Daily reminder that is due at now,
\* due_time is the old due_time plus one day; it is later than now exactly when
\* the old due_time was less than one day before now.
DailyLandsOneDayLater ==
    (Marked("Daily") /\ is_due(entPrev, now)) =>
        /\ ent.due_time = entPrev.due_time + 86400
        /\ ent.due_time > now <=> now - entPrev.due_time < 86400

DailyLandsWitness ==
    /\ Marked("Daily")
    /\ is_due(entPrev, now)
    /\ entPrev.due_time = now
    /\ ent.due_time > now

\* A form as App::new and a commit leave it: no text, no time, no date, and the
\* default recurrence.
FormCleared ==
    /\ new_reminder_text = << >>
    /\ new_reminder_time = << >>
    /\ new_reminder_date = << >>
    /\ new_reminder_recurrence \in {<< >>, NoneWord}

\* C18: once 'a' has been handled in Normal mode the Add form is open with
\* view = Add, mode = Editing, active_field = Text and every field buffer cleared,
\* whatever the buffers held before.
AddFormOpensCleared ==
    key = "a" =>
        /\ current_view = "Add"
        /\ input_mode = "Editing"
        /\ active_field = "Text"
        /\ FormCleared

\* C19: Esc in Editing mode discards every field buffer and the error message,
\* sets mode = Normal and view = List, and persists nothing.
EscDiscardsForm ==
    [][KeyEsc =>
          /\ FormCleared'
          /\ error_message' = << >>
          /\ input_mode' = "Normal"
          /\ current_view' = "List"
          /\ store' = store]_vars

\* C20: in every reachable state of the editor editing_reminder_id is set only
\* while the view is Edit; it is unset in the List, Add and Help views.
EditingIdOnlyInEditView ==
    editing_reminder_id # << >> => current_view = "Edit"

\* The fixed order of the fields of a form.
FieldOrder == <<"Text", "Time", "Date", "Recurrence", "Submit">>

FieldPos(f) == CHOOSE i \in 1..5 : FieldOrder[i] = f

FieldAfter(f) == FieldOrder[(FieldPos(f) % 5) + 1]

FieldBefore(f) == FieldOrder[((FieldPos(f) + 3) % 5) + 1]

\* C21: in the Edit view the editing keys work as in the Add view: a character
\* key appends to the buffer of the active field (nothing on Submit), backspace
\* removes its last character, and the cycle keys move active_field forward and
\* backward in the field order.
EditKeysAsInAdd ==
    [][current_view = "Edit" =>
          /\ KeyChar /\ active_field # "Submit" =>
                 get_active_input' = Append(get_active_input, key')
          /\ KeyChar /\ active_field = "Submit" => UNCHANGED bufVars
          /\ KeyBackspace /\ active_field # "Submit" /\ get_active_input # << >> =>
                 get_active_input' = SubSeq(get_active_input, 1, Len(get_active_input) - 1)
          /\ KeyTab => active_field' = FieldAfter(active_field)
          /\ KeyBackTab => active_field' = FieldBefore(active_field)]_vars

\* C22: in the Add form the forward-cycle key follows the order Text, Time, Date,
\* Recurrence, Submit and wraps from Submit to Text, so five consecutive
\* forward-cycle actions return to the field they started from; Enter on a field
\* other than Submit advances in the same order, and Enter on Submit runs the
\* commit and leaves the active field where it is.
ForwardCycle ==
    /\ [](current_view = "Add" /\ cycle.kind = "Tab" =>
            /\ active_field = FieldOrder[((FieldPos(cycle.from) - 1 + cycle.count) % 5) + 1]
            /\ cycle.count = 5 => active_field = cycle.from)
    /\ [][KeyEnter /\ current_view = "Add" =>
            IF active_field # "Submit"
            THEN active_field' = FieldAfter(active_field) /\ UNCHANGED <<store, current_view>>
            ELSE /\ active_field' = "Submit"
                 /\ error_message' # << >> \/ current_view' = "List"]_vars

ForwardCycleWitness ==
    /\ current_view = "Add"
    /\ cycle = [kind |-> "Tab", from |-> "Date", count |-> 5]
    /\ active_field = "Date"

\* C23: in the Add form, four consecutive backward-cycle actions that start on
\* Text leave active_field = Recurrence.
BackwardCycleLandsOnRecurrence ==
    current_view = "Add" /\ cycle = [kind |-> "BackTab", from |-> "Text", count |-> 4] =>
        active_field = "Recurrence"

\* C23, as the code has it: the backward-cycle key wraps from Text to Submit and
\* otherwise moves to the previous field of the order, so from Text one action
\* lands on Submit, two on Recurrence, three on Date and four on Time.
BackwardCycle ==
    current_view = "Add" /\ cycle.kind = "BackTab" =>
        /\ active_field = FieldOrder[((FieldPos(cycle.from) - 1 + 4 * cycle.count) % 5) + 1]
        /\ cycle.from = "Text" /\ cycle.count = 1 => active_field = "Submit"
        /\ cycle.from = "Text" /\ cycle.count = 2 => active_field = "Recurrence"
        /\ cycle.from = "Text" /\ cycle.count = 4 => active_field = "Time"

BackwardCycleWitness ==
    /\ current_view = "Add"
    /\ cycle = [kind |-> "BackTab", from |-> "Text", count |-> 4]
    /\ active_field = "Time"

\* C24: in every state the editor reaches, the selection index is within
\* [0, len-1] when the list is non-empty and 0 when it is empty; deleting the
\* last item of the list moves the selection to the new last item, and deleting
\* the sole item leaves index 0 on the empty list.
SelectionInRange ==
    /\ [](IF reminders = << >> THEN selected_index = 0
          ELSE selected_index \in 0..(Len(reminders) - 1))
    /\ [][/\ KeyD
          /\ current_view = "List"
          /\ reminders # << >>
          /\ selected_index = Len(reminders) - 1
          => /\ Len(reminders') = Len(reminders) - 1
             /\ selected_index' = IF Len(reminders) = 1 THEN 0 ELSE Len(reminders) - 2]_vars

\* the third of three reminders has just been deleted from index 2
SelectionInRangeWitness ==
    /\ key = "d"
    /\ nextId = 4
    /\ Len(reminders) = 2
    /\ reminders[1].id = 1 /\ reminders[2].id = 2
    /\ selected_index = 1

\* The form passes validation: a text, a time that reads as HH:MM, no date or one
\* that reads as YYYY-MM-DD and exists, and one of the five recurrence words.
Committable ==
    /\ new_reminder_text # << >>
    /\ parse_time(new_reminder_time) # << >>
    /\ new_reminder_date = << >> \/ parse_datetime(new_reminder_date, new_reminder_time) # << >>
    /\ to_lowercase(new_reminder_recurrence) \in
          {NoneWord, DailyWord, WeeklyWord, MonthlyWord, YearlyWord}

Commit == KeyEnter /\ active_field = "Submit" /\ current_view \in {"Add", "Edit"}

\* C25: a commit that fails validation sets an error message and leaves the view,
\* the mode, the active field, the buffers and the persisted collection as they
\* were, and the event loop goes on.
CommitRejected ==
    [][Commit /\ ~Committable =>
          /\ error_message' # << >>
          /\ tuiPc' = "running"
          /\ UNCHANGED <<current_view, input_mode, active_field, bufVars, store>>]_vars

CommitRejectedWitness ==
    /\ key = "Enter"
    /\ current_view = "Add"
    /\ active_field = "Submit"
    /\ error_message = <<"Invalid date/time">>
    /\ new_reminder_text # << >>

\* The form passes validation up to its recurrence, which is none of the five words.
UnknownRecurrence ==
    /\ new_reminder_text # << >>
    /\ parse_datetime_with_default_date(new_reminder_time, new_reminder_date) # << >>
    /\ to_lowercase(new_reminder_recurrence) \notin
          {NoneWord, DailyWord, WeeklyWord, MonthlyWord, YearlyWord}

\* C26: at commit a non-empty recurrence buffer outside none, daily, weekly,
\* monthly, yearly is accepted: the commit succeeds and no error is set.
UnknownRecurrenceAccepted ==
    [][Commit /\ UnknownRecurrence /\ new_reminder_recurrence # << >> =>
          /\ error_message' = << >>
          /\ current_view' = "List"
          /\ store' # store]_vars

\* C26, as the code has it: at commit a recurrence buffer outside the five words
\* is rejected: the error message says so, nothing is stored and the form stays.
UnknownRecurrenceRejected ==
    [][Commit /\ UnknownRecurrence =>
          /\ error_message' = <<"Invalid recurrence">>
          /\ UNCHANGED <<store, current_view, input_mode, active_field, bufVars>>]_vars

UnknownRecurrenceWitness ==
    /\ key = "Enter"
    /\ current_view = "Edit"
    /\ active_field = "Submit"
    /\ new_reminder_recurrence = format_recurrence(RecCustom("cron"))
    /\ error_message = <<"Invalid recurrence">>

\* what a successful commit of the Add form does to the collection
AddedOne ==
    /\ Len(store') = Len(store) + 1
    /\ SubSeq(store', 1, Len(store)) = store
    /\ ~HasId(store, store'[Len(store')].id)
    /\ store'[Len(store')].last_notified = << >>
    /\ ~store'[Len(store')].completed

\* what a successful commit of the Edit form does to the collection
ReplacedOne ==
    /\ Len(store') = Len(store)
    /\ \A i \in 1..Len(store) :
          /\ store'[i].id = store[i].id
          /\ store[i].id # editing_reminder_id[1] => store'[i] = store[i]

\* the editor after a successful commit, but for editing_reminder_id
BackToList ==
    /\ current_view' = "List"
    /\ input_mode' = "Normal"
    /\ FormCleared'
    /\ error_message' = << >>
    /\ reminders' = store'

\* C27: a successful commit persists the result and returns the editor to the
\* List view in Normal mode with buffers, error and editing_reminder_id cleared
\* and the list refreshed; from the Add view the collection gains exactly one
\* reminder, from the Edit view exactly the reminder being edited is replaced in
\* place.
CommitSucceeds ==
    [][Commit /\ Committable =>
          /\ BackToList
          /\ editing_reminder_id' = << >>
          /\ IF current_view = "Add" THEN AddedOne ELSE ReplacedOne]_vars

\* today's date at the requested time, counted from midnight of the clock's day
TodayAt(hm) == now - (now % 86400) + hm[1] * 3600 + hm[2] * 60

\* C28: with no date, the due timestamp is today at the requested HH:MM when that
\* instant has not passed and tomorrow at the same time otherwise, so it is never
\* before now and less than 24 hours after it (at 14:00, "10:00" gives tomorrow
\* 10:00 and "18:00" gives today 18:00); a date that is supplied is combined with
\* the time as given, with no advancing.
DefaultDateRule ==
    parsed.done =>
        LET t == parse_time(new_reminder_time)
            d == parse_date(new_reminder_date)
        IN  IF t = << >> THEN parsed.result = << >>
            ELSE IF new_reminder_date = << >>
            THEN /\ parsed.result =
                       <<IF TodayAt(t[1]) >= now THEN TodayAt(t[1]) ELSE TodayAt(t[1]) + 86400>>
                 /\ parsed.result[1] >= now
                 /\ parsed.result[1] < now + 86400
                 /\ now = At(2025, 1, 31, 14, 0, 0) /\ t[1] = <<10, 0>> =>
                        parsed.result[1] = At(2025, 2, 1, 10, 0, 0)
                 /\ now = At(2025, 1, 31, 14, 0, 0) /\ t[1] = <<18, 0>> =>
                        parsed.result[1] = At(2025, 1, 31, 18, 0, 0)
            ELSE IF d = << >> THEN parsed.result = << >>
            ELSE parsed.result =
                     with_ymd_and_hms(d[1][1], d[1][2], d[1][3], t[1][1], t[1][2], 0)

DefaultDateWitness ==
    /\ parsed.done
    /\ now = At(2025, 1, 31, 14, 0, 0)
    /\ new_reminder_time = <<"1", "0", ":", "0", "0">>
    /\ new_reminder_date = << >>
    /\ parsed.result = <<At(2025, 2, 1, 10, 0, 0)>>

\* the lower-cased name of a recurrence
RecurrenceName(rec) ==
    CASE rec.tag = "None" -> <<"n", "o", "n", "e">>
      [] rec.tag = "Daily" -> <<"d", "a", "i", "l", "y">>
      [] rec.tag = "Weekly" -> <<"w", "e", "e", "k", "l", "y">>
      [] rec.tag = "Monthly" -> <<"m", "o", "n", "t", "h", "l", "y">>
      [] rec.tag = "Yearly" -> <<"y", "e", "a", "r", "l", "y">>
      [] rec.tag = "Custom" -> <<"c", "u", "s", "t", "o", "m">>

\* the reminder under the selection
Selected == reminders[selected_index + 1]

\* 'e' opened the Edit form on the selected reminder: everything but the
\* recurrence buffer
EditFormOpened ==
    /\ current_view' = "Edit"
    /\ input_mode' = "Editing"
    /\ active_field' = "Text"
    /\ editing_reminder_id' = <<Selected.id>>
    /\ new_reminder_text' = Selected.text
    /\ Len(new_reminder_time') = 5
    /\ parse_time(new_reminder_time') = << <<hour(Selected.due_time), minute(Selected.due_time)>> >>
    /\ Len(new_reminder_date') = 10
    /\ parse_date(new_reminder_date') =
          << <<year(Selected.due_time), month(Selected.due_time), day(Selected.due_time)>> >>

EditorUnchanged ==
    UNCHANGED <<current_view, input_mode, active_field, bufVars, editing_reminder_id,
                error_message, selected_index, reminders, store>>

ErrorClearedOnChange ==
    [][\/ current_view' # current_view
       \/ input_mode' # input_mode
       \/ active_field' # active_field
       \/ bufVars' # bufVars
       => error_message' = << >>]_vars

\* a storage initialisation failure, or a permission denied anywhere in the chain
CriticalError(err) ==
    \/ err[1] = InitFailed
    \/ \E i \in 1..Len(err) : err[i] = OsPermissionDenied

\* C31: a run that ends in a critical error (storage initialisation failure,
\* permission denied) halts with a non-zero outcome; a run that ends in any other
\* error reports it and does not halt with a non-zero outcome.
CriticalErrorsHalt ==
    mainRun.pc = "exited" /\ mainRun.err # << >> =>
        /\ mainRun.printed = Len(mainRun.err)
        /\ mainRun.code # 0 <=> CriticalError(mainRun.err)

\* C32: days_in_month returns 31 for months 1, 3, 5, 7, 8, 10, 12, 30 for months
\* 4, 6, 9, 11, and for month 2 returns 29 exactly when the year is divisible by
\* 4 and not by 100, or divisible by 400, and 28 otherwise.
DaysInMonthTable ==
    dim.done =>
        /\ dim.month \in {1, 3, 5, 7, 8, 10, 12} => dim.result = 31
        /\ dim.month \in {4, 6, 9, 11} => dim.result = 30
        /\ dim.month = 2 => dim.result \in {28, 29}
        /\ dim.month = 2 =>
              (dim.result = 29 <=>
                 (dim.year % 4 = 0 /\ dim.year % 100 # 0) \/ dim.year % 400 = 0)
        /\ dim.month = 2 /\ dim.year \in {1900, 2100, 2200, 2023} => dim.result = 28
        /\ dim.month = 2 /\ dim.year \in {2000, 2400, 2024} => dim.result = 29

DaysInMonthWitness ==
    /\ dim.done
    /\ dim.month = 2
    /\ dim.year = 2100
    /\ dim.result = 28

\* C33: mark_notified returns for every reminder with a valid due_time and every
\* recurrence, a Yearly reminder due on February 29 and a Monthly reminder on any
\* day of the month included: it never aborts.
MarkNeverAborts == entOp # "panic"

\* C34: a due scan changes only the reminders that were due: from its load to
\* its end the store keeps its length, its ids and their order, and every
\* reminder that was not due at the scan is identical before and after.
ScanFrame ==
    scanPc # "idle" /\ scanFault # "load" =>
        /\ Len(store) = Len(scanLoaded)
        /\ \A i \in 1..Len(scanLoaded) :
              /\ store[i].id = scanLoaded[i].id
              /\ ~is_due(scanLoaded[i], now) => store[i] = scanLoaded[i]

\* a finished scan that changed one reminder and passed over another
ScanFrameWitness ==
    /\ scanPc = "ok"
    /\ \E i, j \in 1..Len(scanLoaded) :
          /\ i < j
          /\ ~is_due(scanLoaded[i], now)
          /\ store[i] = scanLoaded[i]
          /\ is_due(scanLoaded[j], now)
          /\ store[j] # scanLoaded[j]

\* C35: when a due scan has completed at instant now, every reminder it returned
\* is in the store with is_due false at now and at every instant less than 24
\* whole hours later, so a second scan in that time finds none of them due.
SecondScanFindsNone ==
    scanPc = "ok" =>
        \A k \in 1..Len(scanDue) :
            /\ HasId(store, scanDue[k].id)
            /\ \A t \in {now, now + 1, now + 3600, now + 86399} :
                  ~is_due(store[FirstWithId(store, scanDue[k].id)], t)

\* a completed scan that returned a reminder it did not complete
SecondScanWitness ==
    /\ scanPc = "ok"
    /\ \E k \in 1..Len(scanDue) :
          /\ HasId(store, scanDue[k].id)
          /\ ~store[FirstWithId(store, scanDue[k].id)].completed
          /\ store[FirstWithId(store, scanDue[k].id)].due_time <= now

\* C36: mark_notified never completes a Custom reminder and never moves its
\* due_time; once its due_time has passed it is due when it was never notified
\* and again whenever 24 whole hours have gone by since its last notification.
CustomOverdue ==
    /\ ent.recurrence.tag = "Custom"
    /\ ~ent.completed
    /\ ent.due_time <= now

CustomRepeatsForever ==
    /\ [](CustomOverdue =>
            is_due(ent, now) =
                IF ent.last_notified = << >> THEN TRUE
                ELSE (now - ent.last_notified[1]) \div 3600 >= 24)
    /\ [](CustomOverdue /\ entOp = "is_due" /\ ent.last_notified # << >> =>
            IF now - ent.last_notified[1] >= 86400 THEN entDue ELSE TRUE)
    /\ [][ent.recurrence.tag = "Custom" =>
            /\ ent'.recurrence = ent.recurrence
            /\ ent'.completed = ent.completed
            /\ ent'.due_time = ent.due_time]_vars

\* a Custom reminder notified before, found due again a day later
CustomRepeatsWitness ==
    /\ CustomOverdue
    /\ entMarks >= 1
    /\ entOp = "is_due"
    /\ entDue
    /\ ent.last_notified # << >>
    /\ ent.last_notified[1] >= StartNow
    /\ now - ent.last_notified[1] >= 86400

\* the stored reminder the Edit form was opened on
Edited == store[FirstWithId(store, editing_reminder_id[1])]

\* the Edit form as 'e' filled it, no buffer touched since
EditFormUntouched ==
    /\ current_view = "Edit"
    /\ editing_reminder_id # << >>
    /\ HasId(store, editing_reminder_id[1])
    /\ new_reminder_text = Edited.text
    /\ new_reminder_time = format_time(Edited.due_time)
    /\ new_reminder_date = format_date(Edited.due_time)
    /\ new_reminder_recurrence = format_recurrence(Edited.recurrence)

\* C37: committing an Edit form no buffer of which was changed succeeds and leaves
\* the reminder's text, its due_time to the minute and its recurrence as they
\* were in the store, for every recurrence value, Custom included.
EditRoundTrip ==
    [][Commit /\ EditFormUntouched =>
          /\ error_message' = << >>
          /\ current_view' = "List"
          /\ HasId(store', editing_reminder_id[1])
          /\ LET was == Edited
                 is == store'[FirstWithId(store', editing_reminder_id[1])]
             IN  /\ is.text = was.text
                 /\ is.due_time = was.due_time - (was.due_time % 60)
                 /\ is.recurrence = was.recurrence]_vars

\* C38: in every state of the editor the mode is Editing exactly when the view is
\* Add or Edit and Normal exactly when it is List or Help, and the active field
\* is one of Text, Time, Date, Recurrence and Submit.
ModeFollowsView ==
    /\ input_mode \in {"Normal", "Editing"}
    /\ current_view \in {"List", "Add", "Edit", "Help"}
    /\ input_mode = "Editing" <=> current_view \in {"Add", "Edit"}
    /\ input_mode = "Normal" <=> current_view \in {"List", "Help"}
    /\ Cardinality({f \in {"Text", "Time", "Date", "Recurrence", "Submit"} :
                       active_field = f}) = 1

\* a form was committed and the editor is back on the list
ModeFollowsViewWitness ==
    /\ key = "Enter"
    /\ current_view = "List"
    /\ input_mode = "Normal"
    /\ active_field = "Submit"

\* a cycle key is handled in the Add form right after the opposite cycle key
CyclePair ==
    /\ current_view = "Add"
    /\ \/ trail.kind = "Tab" /\ key' = "BackTab"
       \/ trail.kind = "BackTab" /\ key' = "Tab"

\* the pair went forward out of Date
PairLeftDate ==
    \/ trail.kind = "Tab" /\ trail.field = "Date"
    \/ trail.kind = "BackTab" /\ trail.field = "Recurrence"

\* C39: in the Add form a forward-cycle action followed by a backward-cycle
\* action, and the reverse, restore the whole form: the active field and the four
\* buffers are as before the pair.
CyclePairRestoresForm ==
    [][CyclePair => active_field' = trail.field /\ bufVars' = trail.bufs]_vars

\* C39, as the code has it: the pair restores the active field and the text, time
\* and date buffers; the recurrence buffer is as before too, unless it was empty
\* and the pair went forward out of Date, which sets it to "none".
CyclePairRestoresField ==
    [][CyclePair =>
          /\ active_field' = trail.field
          /\ new_reminder_text' = trail.bufs[1]
          /\ new_reminder_time' = trail.bufs[2]
          /\ new_reminder_date' = trail.bufs[3]
          /\ new_reminder_recurrence' =
                IF trail.bufs[4] = << >> /\ PairLeftDate THEN NoneWord ELSE trail.bufs[4]]_vars

\* BackTab from Recurrence and Tab back, over a recurrence buffer emptied before
CyclePairWitness ==
    /\ current_view = "Add"
    /\ key = "Tab"
    /\ trail.before = "BackTab"
    /\ trail.field = "Date"
    /\ trail.bufs[4] = << >>
    /\ active_field = "Recurrence"
    /\ new_reminder_recurrence = NoneWord

\* the places at which two collections of the same length differ
Changed(a, b) == {i \in 1..Len(a) : a[i] # b[i]}

\* C40: from an empty store, with a fresh id minted by each Add, the ids of the
\* stored reminders are pairwise distinct, and every write of Add, Edit, Delete
\* and of the scan's per-reminder update touches at most one reminder.
IdsPairwiseDistinct ==
    /\ [](\A i, j \in 1..Len(store) : i # j => store[i].id # store[j].id)
    /\ [][/\ Len(store') \in {Len(store) - 1, Len(store), Len(store) + 1}
          /\ Len(store') = Len(store) => Cardinality(Changed(store, store')) <= 1
          /\ Len(store') = Len(store) + 1 => SubSeq(store', 1, Len(store)) = store
          /\ Len(store') = Len(store) - 1 =>
                \E k \in 1..Len(store) :
                    store' = SubSeq(store, 1, k - 1) \o SubSeq(store, k + 1, Len(store))]_vars

\* two reminders are left after a delete, an edit and a scan that notified one
IdsDistinctWitness ==
    /\ Len(store) >= 2
    /\ nextId - 1 > Len(store)
    /\ edits >= 1
    /\ \E i \in 1..Len(store) : store[i].last_notified # << >>

====
